---- MODULE Spec2Model ----
(***************************************************************************)
(* State-machine model of the access point of src/src/ap.py: one AP with   *)
(* its single BSS (AP.__init__ builds self.bssids = {mac: BSS(...)}), the  *)
(* receive dispatcher recv_pkt with its handlers, the upper-network reader *)
(* (TunInterface.run -> tun_data_incoming -> enc_send) and the beacon      *)
(* transmitter.                                                            *)
(*                                                                         *)
(* Byte strings are modelled symbolically as [len, src]: len is the length *)
(* in bytes, src names how the bytes were produced.  Random draws          *)
(* (/dev/urandom, random.randrange) are modelled as values never drawn     *)
(* before (a draw counter).  Time is in milliseconds.                      *)
(***************************************************************************)
EXTENDS Integers, Sequences, FiniteSets, TLC

-----------------------------------------------------------------------------
(* Bounds of the model *)

\* the clock advances at most MaxTicks times, by half of BACKOFF each time
MaxTicks == 2
\* steps are explored whose result has BSS.sc <= MaxSC
MaxSC == 2
\* steps are explored that leave the PN counters at MaxPN or below, that is,
\* frames are encrypted with the PNs 0..MaxPN-1
MaxPN == 2
\* received CCMP headers carry a PN in 0..MaxRxPN
MaxRxPN == 1
\* SpecAid follows the association exchange for at most MaxAssocs windows
\* of BACKOFF
MaxAssocs == 2008
\* SpecLock starts a call of next_sc or next_aid while BSS.aid < MaxAid
MaxAid == 2

-----------------------------------------------------------------------------
(* Program constants *)

\* BACKOFF = 0.25 seconds, here in milliseconds
BACKOFF == 250

DOT11_TYPE_MANAGEMENT == 0
DOT11_TYPE_DATA == 2
DOT11_SUBTYPE_PROBE_REQ == 4
DOT11_SUBTYPE_AUTH_REQ == 11
DOT11_SUBTYPE_ASSOC_REQ == 0
DOT11_SUBTYPE_REASSOC_REQ == 2

\* AP.mac: the MAC of the AP, which is the BSSID of its only BSS
Mac == "44:44:44:00:00:00"
\* AP.bssids.keys()
Bssids == {Mac}
\* BSS.ssid
Ssid == "turtlenet"
\* BSS.psk
Psk == "password1234"

\* addresses of the environment: a station, the broadcast address, a
\* multicast address, and a unicast address that belongs to somebody else
Sta1 == "02:00:00:00:00:01"
Broadcast == "ff:ff:ff:ff:ff:ff"
Multicast == "01:00:5e:00:00:01"
OtherMac == "02:00:00:00:00:99"
StaMacs == {Sta1}

\* is_multicast(a) or is_broadcast(a)
IsGroup(a) == a \in {Broadcast, Multicast}

-----------------------------------------------------------------------------
(* Byte strings and the primitives of ccmp.py / hashlib / hmac *)

Bytes(n, s) == [len |-> n, src |-> s]
\* b[i:j]
Slice(b, i, j) == [len |-> j - i, src |-> <<"slice", b.src, i, j>>]
\* b"\x00" * n
ZeroBytes(n) == Bytes(n, <<"zero">>)
\* an attribute that was never assigned (hasattr(...) is False)
Absent == Bytes(0 - 1, <<"absent">>)

\* os.urandom-like draw number k of n bytes, by the named source
Random(n, who, k) == Bytes(n, <<who, k>>)

\* hashlib.pbkdf2_hmac("sha1", psk, ssid, 4096, 32)
pbkdf2_hmac(psk, ssid) == Bytes(32, <<"pbkdf2", psk, ssid>>)

\* ccmp.customPRF512(pmk, amac, smac, anonce, snonce): the data is
\* min(AA,SPA) || max(AA,SPA) || min(ANONCE,SNONCE) || max(ANONCE,SNONCE),
\* so the result depends on the two unordered pairs
customPRF512(pmk, amac, smac, anonce, snonce) ==
    Bytes(64, <<"PRF512", pmk.src, {amac, smac}, {anonce.src, snonce.src}>>)

\* hmac.new(key, msg, hashlib.sha1).digest()
hmac_sha1(key, msg) == Bytes(20, <<"hmac", key.src, msg>>)

\* ccmp.aes_wrap(kek, plain): output is input length + 8
aes_wrap(kek, plain) == Bytes(plain.len + 8, <<"aes_wrap", kek.src, plain.src>>)

-----------------------------------------------------------------------------
(* Frames *)

\* Dot11(...) / payload; scapy's default SC is 0
Dot11(type, subtype, FCfield, addr1, addr2, addr3, SC, payload) ==
    [type |-> type, subtype |-> subtype, FCfield |-> FCfield,
     addr1 |-> addr1, addr2 |-> addr2, addr3 |-> addr3, SC |-> SC,
     payload |-> payload]

\* EAPOL_KEY with the defaults of its fields_desc
EAPOL_KEY_default ==
    [key_descriptor_type |-> 1, key_descriptor_type_version |-> 0,
     install |-> 0, key_type |-> 0, key_ack |-> 0, has_key_mic |-> 1,
     secure |-> 0, encrypted_key_data |-> 0, key_replay_counter |-> 0,
     key_nonce |-> ZeroBytes(32), key_mic |-> ZeroBytes(16),
     key_length |-> 0, key |-> ZeroBytes(0)]

\* LLC / SNAP(code=0x888E) / EAPOL / EAPOL_KEY
EapolPayload(ek) == [layer |-> "EAPOL", code |-> 34958, key |-> ek]

\* Ethernet frame handed to / received from the upper network
Ether(dst, src, proto) == [dst |-> dst, src |-> src, proto |-> proto]

-----------------------------------------------------------------------------
(* State *)

VARIABLES
    now,          \* time.time(), in milliseconds since the AP was built
    sc,           \* BSS.sc
    aid,          \* BSS.aid
    stations,     \* BSS.stations: MAC -> Station
    gtk,          \* BSS.gtk
    group_iv,     \* BSS.group_iv: the value the next next() returns
    auth_times,   \* BSS.auth_times: MAC -> time
    assoc_times,  \* BSS.assoc_times: MAC -> time
    eapol_ready,  \* AP.eapol_ready
    rng,          \* number of ANONCE values drawn so far
    crashed,      \* an exception left recv_pkt: the receiver loop has ended
    out,          \* frames handed to sendp by the last step, in order
    up,           \* frames written to the upper network by the last step
    ev,           \* history: the frame the last step handled (see Event)
    pn_hi,        \* history: key -> highest PN a frame was encrypted with
    tun,          \* the TunInterface thread: where it is in enc_send
    thr,          \* BSS.mutex and where each thread is in next_sc / next_aid
    stdio         \* stdio mode: the bytes not yet read, qdata, and (history)
                  \* the byte strings handed to recv_pkt

vars == <<now, sc, aid, stations, gtk, group_iv, auth_times, assoc_times,
          eapol_ready, rng, crashed, out, up, ev, pn_hi, tun, thr, stdio>>

\* BSS.pmk
pmk == pbkdf2_hmac(Psk, Ssid)

\* the state as one value, which the handlers below transform
World ==
    [now |-> now, sc |-> sc, aid |-> aid, stations |-> stations, gtk |-> gtk,
     group_iv |-> group_iv, auth_times |-> auth_times,
     assoc_times |-> assoc_times, eapol_ready |-> eapol_ready, rng |-> rng,
     crashed |-> crashed, out |-> <<>>, up |-> <<>>, pn_hi |-> pn_hi]

\* d[k] = v
Put(d, k, v) == [x \in DOMAIN d \cup {k} |-> IF x = k THEN v ELSE d[x]]
\* del d[k]
Del(d, k) == [x \in DOMAIN d \ {k} |-> d[x]]
EmptyDict == [x \in {} |-> 0]

\* a Station that is born associated
Station_associated(mac) ==
    [mac |-> mac, associated |-> TRUE, eapol_ready |-> FALSE,
     ANONCE |-> Absent, m1_packet |-> <<>>, PTK |-> Absent, KCK |-> Absent,
     KEK |-> Absent, TK |-> Absent, client_iv |-> 0 - 1]

\* Station.__init__
Station(mac) ==
    [mac |-> mac, associated |-> FALSE, eapol_ready |-> FALSE,
     ANONCE |-> Absent, m1_packet |-> <<>>, PTK |-> Absent, KCK |-> Absent,
     KEK |-> Absent, TK |-> Absent, client_iv |-> 0 - 1]

\* BSS.gen_gtk: gtk_full = 32 random bytes, gtk = gtk_full[:16],
\* group_iv = count()
gen_gtk(k) == Slice(Random(32, "urandom", k), 0, 16)

\* AP.sendp
sendp(w, packet) == [w EXCEPT !.out = Append(@, packet)]

\* BSS.next_sc: the counter after the call
next_sc(w) == [w EXCEPT !.sc = (@ + 1) % 4096]
\* BSS.next_sc: the value it returned (temp * 16)
sc_value(w) == w.sc * 16

\* BSS.next_aid: the counter after the call, which is also the value returned
next_aid(w) == [w EXCEPT !.aid = (@ + 1) % 2008]

\* a window that includes its end
InBackoff_closed(t_now, t_then) == t_now - t_then <= BACKOFF

\* t_now - t_then < BACKOFF
InBackoff(t_now, t_then) == t_now - t_then < BACKOFF

\* AP.dot11_auth
dot11_auth(w, bssid, receiver) ==
    LET t_now == w.now
    IN  IF /\ receiver \in DOMAIN w.auth_times
           /\ InBackoff(t_now, w.auth_times[receiver])
        THEN w
        ELSE LET w1 == [w EXCEPT !.auth_times = Put(@, receiver, t_now)]
                 w2 == next_sc(w1)
                 auth_packet ==
                     Dot11(DOT11_TYPE_MANAGEMENT, 11, "", receiver, bssid,
                           bssid, sc_value(w2),
                           [layer |-> "Dot11Auth", seqnum |-> 2])
             IN  sendp(w2, auth_packet)

\* the EAPOL_KEY of message 1, as built in prepare_message_1
Message1Key(anonce) ==
    [EAPOL_KEY_default EXCEPT
        !.key_descriptor_type = 2, !.key_descriptor_type_version = 2,
        !.key_type = 1, !.key_ack = 1, !.has_key_mic = 0,
        !.key_replay_counter = 1, !.key_nonce = anonce, !.key_length = 16]

\* AP.prepare_message_1
prepare_message_1(w, bssid, sta) ==
    IF sta \in Bssids THEN w
    ELSE IF bssid \notin Bssids THEN w
    ELSE IF sta \notin DOMAIN w.stations THEN w
    ELSE
      LET stat0 == w.stations[sta]
          fresh == stat0.ANONCE = Absent
          anonce == IF fresh THEN Random(32, "ANONCE", w.rng + 1)
                    ELSE stat0.ANONCE
          w1 == next_sc([w EXCEPT !.rng = IF fresh THEN @ + 1 ELSE @])
          m1 == Dot11(DOT11_TYPE_DATA, 0, "from-DS", sta, bssid, bssid,
                      sc_value(w1), EapolPayload(Message1Key(anonce)))
      IN  [w1 EXCEPT !.stations[sta] =
              [stat0 EXCEPT !.ANONCE = anonce, !.m1_packet = <<m1>>,
                            !.eapol_ready = TRUE]]

\* a create_message_1 that sends nothing
create_message_1_silent(w, bssid, sta) == w

\* AP.create_message_1
create_message_1(w, bssid, sta) ==
    LET stat == w.stations[sta]
    IN  IF ~stat.eapol_ready THEN w
        ELSE sendp(w, stat.m1_packet[1])

\* AP.dot11_assoc_resp
dot11_assoc_resp(w, packet, sta, reassoc) ==
    LET bssid == packet.addr1
        w0 == IF sta \notin DOMAIN w.stations
              THEN [w EXCEPT !.stations = Put(@, sta, Station(sta))]
              ELSE w
        t_now == w.now
    IN  IF /\ sta \in DOMAIN w0.assoc_times
           /\ InBackoff(t_now, w0.assoc_times[sta])
        THEN w0
        ELSE
          LET w1 == [w0 EXCEPT !.assoc_times = Put(@, sta, t_now),
                               !.eapol_ready = TRUE]
              response_subtype == IF reassoc = 2 THEN 3 ELSE 1
              w2 == next_sc(w1)
              w3 == next_aid(w2)
              assoc_packet ==
                  Dot11(DOT11_TYPE_MANAGEMENT, response_subtype, "", sta,
                        bssid, bssid, sc_value(w2),
                        [layer |-> "Dot11AssoResp", status |-> 0,
                         AID |-> w3.aid])
              w4 == prepare_message_1(w3, bssid, sta)
              w5 == sendp(w4, assoc_packet)
          IN  create_message_1(w5, bssid, sta)

\* a comparison that accepts every MIC
MicAlwaysMatches(given_mic, computed_mic) == TRUE

\* a comparison that rejects every MIC but removes nothing
MicNeverMatches(given_mic, computed_mic) == FALSE

\* given_mic != computed_mic is its negation
MicMatches(given_mic, computed_mic) == given_mic = computed_mic

\* in_eapol.build().replace(ek.key_mic, b"\x00" * len(ek.key_mic))
MicZeroed(ek) == [ek EXCEPT !.key_mic = ZeroBytes(ek.key_mic.len)]

\* hmac.new(kck, frame, hashlib.sha1).digest()[:16]
EapolMic(kck, ek) == Slice(hmac_sha1(kck, ek), 0, 16)

\* pad_key_data(RSN + gtk_kde): the RSN element (22 bytes), the GTK KDE
\* header (8 bytes), the GTK and the 0xdd 0x00 terminator, padded to a
\* multiple of 8
KeyDataPlain(g) ==
    LET n == 22 + 8 + g.len + 2
    IN  Bytes(n + ((8 - (n % 8)) % 8), <<"RSN+GTK_KDE", g.src>>)

\* the EAPOL_KEY of message 3, as built in create_eapol_3, before its MIC
Message3Key(stat, g) ==
    LET keydata == aes_wrap(stat.KEK, KeyDataPlain(g))
    IN  [EAPOL_KEY_default EXCEPT
            !.key_descriptor_type = 2, !.key_descriptor_type_version = 2,
            !.install = 1, !.key_type = 1, !.key_ack = 1, !.has_key_mic = 1,
            !.secure = 1, !.encrypted_key_data = 1,
            !.key_replay_counter = 2, !.key_nonce = stat.ANONCE,
            !.key_mic = ZeroBytes(16), !.key_length = 16, !.key = keydata]

\* Dot11(addr1=sta, addr2=bssid, addr3=bssid) / Dot11Deauth(reason=...)
Deauth(sta, bssid, reason) ==
    Dot11(DOT11_TYPE_MANAGEMENT, 12, "", sta, bssid, bssid, 0,
          [layer |-> "Dot11Deauth", reason |-> reason])

\* create_eapol_3 without its test of eapol_ready
eapol_ready_check_any(w, sta) == TRUE

\* create_eapol_3: bss.stations[sta].eapol_ready, which lets a frame in
eapol_ready_check(w, sta) == w.stations[sta].eapol_ready

\* AP.create_eapol_3
create_eapol_3(w, message_2) ==
    LET bssid == message_2.addr1
        sta == message_2.addr2
    IN
    IF sta \in Bssids THEN w
    ELSE IF bssid \notin Bssids THEN w
    ELSE IF sta \notin DOMAIN w.stations THEN w
    ELSE IF ~eapol_ready_check(w, sta) THEN w
    ELSE
      LET eapol_key == message_2.payload.key
          snonce == eapol_key.key_nonce
          PTK == customPRF512(pmk, bssid, sta, w.stations[sta].ANONCE, snonce)
          stat == [w.stations[sta] EXCEPT
                      !.PTK = PTK, !.KCK = Slice(PTK, 0, 16),
                      !.KEK = Slice(PTK, 16, 32), !.TK = Slice(PTK, 32, 48),
                      !.client_iv = 0]
          given_mic == eapol_key.key_mic
          computed_mic == EapolMic(stat.KCK, MicZeroed(eapol_key))
      IN
      IF ~MicMatches(given_mic, computed_mic)
      THEN LET w1 == sendp(w, Deauth(sta, bssid, 1))
           IN  [w1 EXCEPT !.stations = Del(@, sta)]
      ELSE
        LET ek0 == Message3Key(stat, w.gtk)
            ek == [ek0 EXCEPT !.key_mic = EapolMic(stat.KCK, ek0)]
            w1 == next_sc(w)
            m3_packet == Dot11(DOT11_TYPE_DATA, 0, "from-DS", sta, bssid,
                               bssid, sc_value(w1), EapolPayload(ek))
            w2 == sendp(w1, m3_packet)
        IN  [w2 EXCEPT !.stations[sta] =
                [stat EXCEPT !.eapol_ready = FALSE, !.associated = TRUE]]

-----------------------------------------------------------------------------
(* CCMP *)

Max(a, b) == IF a >= b THEN a ELSE b
\* d[k] if k is a key of d, else v
Get(d, k, v) == IF k \in DOMAIN d THEN d[k] ELSE v

\* CCMPCrypto.run_ccmp_encrypt(tk, nonce, aad, payload) + tag: the nonce is
\* made of addr2 and the PN
run_ccmp_encrypt(tk, addr2, pn, plain) ==
    [tk |-> tk, addr2 |-> addr2, pn |-> pn, plain |-> plain, tag |-> "tag"]

\* CCMPCrypto.run_ccmp_decrypt(tk, nonce, aad, payload, tag): valid
run_ccmp_decrypt(tk, addr2, pn, data) ==
    /\ data.tag = "tag"
    /\ data.tk = tk
    /\ data.addr2 = addr2
    /\ data.pn = pn

\* AP.encrypt_ccmp: the frame; SC is the value next_sc returned
encrypt_ccmp(w, sta, p, tk, pn, keyid) ==
    Dot11(DOT11_TYPE_DATA, 0, "from-DS+protected", sta, Mac, p.src,
          sc_value(w),
          [layer |-> "Dot11CCMP", key_id |-> keyid, ext_iv |-> 1, PN |-> pn,
           data |-> run_ccmp_encrypt(tk, Mac, pn, [proto |-> p.proto])])

\* a counter that stands still
NextIv_same(c) == c

\* next(counter): the counter after the call
NextIv(c) == c + 1

\* AP.encrypt followed by sendp, as in enc_send
encrypt_send(w, sta, packet, key_idx) ==
    LET pn == IF key_idx = 0 THEN w.stations[sta].client_iv ELSE w.group_iv
        key == IF key_idx = 0 THEN w.stations[sta].TK ELSE w.gtk
        w1 == IF key_idx = 0
              THEN [w EXCEPT !.stations[sta].client_iv = NextIv(@)]
              ELSE [w EXCEPT !.group_iv = NextIv(@)]
        w2 == next_sc(w1)
        y == encrypt_ccmp(w2, sta, packet, key, pn, key_idx)
        w3 == [w2 EXCEPT !.pn_hi = Put(@, key, Max(Get(@, key, 0 - 1), pn))]
    IN  sendp(w3, y)

\* an enc_send that does not look at the station's associated flag
enc_send_known(w, sta, packet) ==
    IF IsGroup(sta)
    THEN IF w.gtk.len = 0 THEN w ELSE encrypt_send(w, sta, packet, 1)
    ELSE IF sta \notin DOMAIN w.stations
    THEN w
    ELSE encrypt_send(w, sta, packet, 0)

\* AP.enc_send
enc_send(w, sta, packet) ==
    IF IsGroup(sta)
    THEN IF w.gtk.len = 0 THEN w ELSE encrypt_send(w, sta, packet, 1)
    ELSE IF sta \notin DOMAIN w.stations \/ ~w.stations[sta].associated
    THEN w
    ELSE encrypt_send(w, sta, packet, 0)

\* the branch AP.enc_send takes on its checks of the destination: "group"
\* (key index 1), "return" (invalid station) or "encrypt" (key index 0)
enc_send_check(w, sta) ==
    IF IsGroup(sta) THEN "group"
    ELSE IF sta \notin DOMAIN w.stations \/ ~w.stations[sta].associated
    THEN "return"
    ELSE "encrypt"

\* what the lookups of AP.encrypt for key index 0 meet: bss.stations[sta]
\* is a KeyError when the station is not in the table, and its client_iv is
\* an AttributeError when the Station has none
encrypt_lookup(w, sta) ==
    IF sta \notin DOMAIN w.stations THEN "KeyError"
    ELSE IF w.stations[sta].client_iv < 0 THEN "AttributeError"
    ELSE "ok"

\* an exception is raised: it leaves recv_pkt, whose try catches SyntaxError
\* only, and ends the receiver loop. Nothing runs after it: of the state at
\* that point the model keeps the clock and the group key with its counter,
\* and drops the tables and counters nothing will read again
Raise(w) ==
    [w EXCEPT !.crashed = TRUE, !.sc = 0, !.aid = 0, !.stations = EmptyDict,
              !.auth_times = EmptyDict, !.assoc_times = EmptyDict,
              !.eapol_ready = FALSE, !.rng = 0, !.out = << >>, !.up = << >>,
              !.pn_hi = EmptyDict]

\* AP.handle_arp with bssid given: the reply goes to packet[Ether].src
handle_arp(w, bssid, packet) ==
    enc_send(w, packet.src, Ether(Broadcast, Mac, "ARP-reply"))

\* a decrypt_ccmp that returns the frame whether or not the tag is valid
decrypt_ccmp_unverified(p, tk, g) ==
    <<Ether(p.addr3, p.addr2, p.payload.data.plain.proto)>>

\* AP.decrypt_ccmp: <<>> for None, <<frame>> for the Ethernet frame
decrypt_ccmp(p, tk, g) ==
    LET ccmp == p.payload
        key == IF ccmp.key_id = 0 THEN tk ELSE g
    IN  IF ~run_ccmp_decrypt(key, p.addr2, ccmp.PN, ccmp.data) THEN <<>>
        ELSE <<Ether(p.addr3, p.addr2, ccmp.data.plain.proto)>>

\* a decrypt that answers an unknown station and enters it in the table
decrypt_unknown_enrols(w, bssid, sta) ==
    sendp([w EXCEPT !.stations = Put(@, sta, Station(sta))],
          Deauth(sta, bssid, 9))

\* AP.decrypt for a station that is not in the table: a deauthentication
\* with reason 9, and None is returned
decrypt_unknown(w, bssid, sta) ==
    sendp(w, Deauth(sta, bssid, 9))

\* the "to-DS+protected" branch of AP.recv_pkt, with AP.decrypt and
\* AP.handle_data_packet
recv_protected(w, packet) ==
    LET sta == packet.addr2
        bssid == packet.addr1
    IN
    IF bssid \notin Bssids THEN w
    ELSE IF sta \notin DOMAIN w.stations
    THEN decrypt_unknown(w, bssid, sta)
    ELSE IF w.stations[sta].TK = Absent THEN Raise(w)
    ELSE IF packet.payload.key_id \notin {0, 1} THEN Raise(w)
    ELSE
      LET decrypted == decrypt_ccmp(packet, w.stations[sta].TK, w.gtk)
      IN  IF decrypted = <<>> THEN w
          ELSE IF sta # decrypted[1].src THEN w
          ELSE IF decrypted[1].proto = "ARP"
          THEN handle_arp(w, bssid, decrypted[1])
          ELSE [w EXCEPT !.up = Append(@, decrypted[1])]

-----------------------------------------------------------------------------
(* Management responses and the dispatcher *)

\* bss.ssid == ssid, where bss.ssid is a str and ssid (packet[Dot11Elt].info)
\* is bytes: in Python 3 a str never equals a bytes object
SsidEquals(bss_ssid, info) == FALSE

\* AP.dot11_probe_resp
dot11_probe_resp(w, bssid, source, ssid) ==
    LET w1 == next_sc(w)
    IN  sendp(w1, Dot11(DOT11_TYPE_MANAGEMENT, 5, "", source, bssid, bssid,
                        sc_value(w1),
                        [layer |-> "Dot11ProbeResp", ssid |-> ssid]))

\* the probe-request branch of AP.recv_pkt
recv_probe_req(w, packet) ==
    IF ~packet.payload.has_elt THEN w
    ELSE IF packet.payload.len = 0
    THEN dot11_probe_resp(w, Mac, packet.addr2, Ssid)
    ELSE IF SsidEquals(Ssid, packet.payload.info)
    THEN Raise(w)  \* dot11_probe_resp(bss, ...): self.bssids[bss] is a KeyError
    ELSE w

\* AP.handle_data_packet(None, packet) on an unprotected data frame: TRUE
\* when a stub raises (handle_arp reads packet[Ether], a layer the frame
\* does not have)
handle_data_packet_raises(packet) == packet.payload.layer = "ARP"

\* a filter that returns on the group-addressed frames of other senders
NotForUs_others(a, addr2) ==
    a # Mac /\ (IF IsGroup(a) THEN addr2 # Mac ELSE TRUE)

\* the address filter at the head of AP.recv_pkt: TRUE when it returns
NotForUs(a, addr2) ==
    a # Mac /\ (IF IsGroup(a) THEN addr2 = Mac ELSE TRUE)

\* AP.recv_pkt
recv_pkt(w, packet) ==
    LET a == packet.addr1
    IN
    IF NotForUs(a, packet.addr2) THEN w
    ELSE IF packet.badfcs THEN w
    ELSE IF /\ packet.payload.layer = "Dot11CCMP"
            /\ packet.FCfield = "to-DS+protected"
    THEN recv_protected(w, packet)
    ELSE
      LET w1 == IF packet.payload.layer = "EAPOL"
                THEN create_eapol_3(w, packet)
                ELSE w
      IN
      IF packet.type = DOT11_TYPE_DATA
      THEN IF handle_data_packet_raises(packet) THEN Raise(w1) ELSE w1
      ELSE IF packet.type = DOT11_TYPE_MANAGEMENT
      THEN IF packet.subtype = DOT11_SUBTYPE_PROBE_REQ
           THEN recv_probe_req(w1, packet)
           ELSE IF packet.subtype = DOT11_SUBTYPE_AUTH_REQ
           THEN IF packet.addr1 \in Bssids
                THEN dot11_auth([w1 EXCEPT !.sc = 0 - 1], packet.addr1,
                                packet.addr2)
                ELSE w1
           ELSE IF \/ packet.subtype = DOT11_SUBTYPE_ASSOC_REQ
                   \/ packet.subtype = DOT11_SUBTYPE_REASSOC_REQ
           THEN IF packet.addr1 \in Bssids
                THEN dot11_assoc_resp(w1, packet, packet.addr2,
                                      packet.subtype)
                ELSE w1
           ELSE w1
      ELSE w1

\* AP.dot11_beacon
dot11_beacon(w, bssid, ssid) ==
    sendp(w, Dot11(DOT11_TYPE_MANAGEMENT, 8, "", Broadcast, bssid, bssid, 0,
                   [layer |-> "Dot11Beacon", ssid |-> ssid]))

\* AP.tun_data_incoming, called by TunInterface.run with sta = Ether.dst
tun_data_incoming(w, sta, incoming) == enc_send(w, sta, incoming)

-----------------------------------------------------------------------------
(* The environment: frames on the air and on the upper network *)

RxAddr1 == {Mac, Broadcast, OtherMac}

\* a received frame: RadioTap (with its bad-FCS flag) / Dot11 / payload
RxFrame(badfcs, type, subtype, FCfield, addr1, addr2, payload) ==
    [badfcs |-> badfcs, type |-> type, subtype |-> subtype,
     FCfield |-> FCfield, addr1 |-> addr1, addr2 |-> addr2, addr3 |-> addr1,
     SC |-> 0, payload |-> payload]

\* the clock advances by TickMs; it stops at MaxTime
TickMs == BACKOFF \div 2
MaxTime == MaxTicks * TickMs

\* an ANONCE is drawn for a new Station only, a Station is deleted only
\* after an accepted association request, and a station's accepted requests
\* are BACKOFF apart: no more than MaxDraws values are drawn per station
MaxDraws == (MaxTime \div BACKOFF) + 1

\* the SNONCE values stations choose in handshakes that data frames follow,
\* by name
SnonceIds == {"s1"}

Anonce(k) == Random(32, "ANONCE", k)
Snonce(k) == Random(32, "SNONCE", k)

\* the EAPOL_KEY a supplicant sends: message 2 has replay counter 1 and
\* carries the SNONCE, message 4 has replay counter 2 and a zero nonce
SupplicantKey(k, rc) ==
    [EAPOL_KEY_default EXCEPT
        !.key_descriptor_type = 2, !.key_descriptor_type_version = 2,
        !.key_type = 1, !.key_ack = 0, !.has_key_mic = 1,
        !.secure = IF rc = 2 THEN 1 ELSE 0,
        !.key_replay_counter = rc,
        !.key_nonce = IF rc = 2 THEN ZeroBytes(32) ELSE Snonce(k)]

\* the MIC a supplicant that knows the PSK computes, having received the
\* ANONCE number a (a >= 1) and chosen SNONCE number k; a = 0 is a MIC that
\* is wrong whatever the key
SupplicantMic(bssid, sta, a, k, ek) ==
    IF a = 0 THEN Bytes(16, <<"garbage">>)
    ELSE EapolMic(Slice(customPRF512(pmk, bssid, sta, Anonce(a), Snonce(k)),
                        0, 16), ek)

AuthFrame(badfcs, a1, a2) ==
    RxFrame(badfcs, DOT11_TYPE_MANAGEMENT, DOT11_SUBTYPE_AUTH_REQ, "", a1, a2,
            [layer |-> "Dot11Auth", seqnum |-> 1])

AuthReqs ==
    {AuthFrame(FALSE, a1, a2) : a1 \in RxAddr1, a2 \in StaMacs}
    \cup {AuthFrame(TRUE, Mac, a2) : a2 \in StaMacs}

AssocFrame(st, a1, a2) ==
    RxFrame(FALSE, DOT11_TYPE_MANAGEMENT, st, "", a1, a2,
            [layer |-> "Dot11AssoReq"])

AssocReqs ==
    {AssocFrame(st, Mac, a2) :
        st \in {DOT11_SUBTYPE_ASSOC_REQ, DOT11_SUBTYPE_REASSOC_REQ},
        a2 \in StaMacs}
    \cup {AssocFrame(DOT11_SUBTYPE_ASSOC_REQ, OtherMac, a2) : a2 \in StaMacs}

\* requests whose transmitter address is the BSSID itself
SelfFrames ==
    {AssocFrame(st, Mac, Mac) :
        st \in {DOT11_SUBTYPE_ASSOC_REQ, DOT11_SUBTYPE_REASSOC_REQ}}
    \cup {AuthFrame(FALSE, Mac, Mac)}

ProbeReqs ==
    {RxFrame(FALSE, DOT11_TYPE_MANAGEMENT, DOT11_SUBTYPE_PROBE_REQ, "", a1,
             a2, [layer |-> "Dot11ProbeReq", has_elt |-> TRUE, len |-> n,
                  info |-> IF n = 0 THEN "" ELSE Ssid]) :
        a1 \in {Mac, Broadcast}, a2 \in StaMacs, n \in {0, Len(Ssid)}}

EapolFrame(a1, a2, a, k, rc) ==
    RxFrame(FALSE, DOT11_TYPE_DATA, 0, "to-DS", a1, a2,
            EapolPayload([SupplicantKey(k, rc) EXCEPT
                !.key_mic = SupplicantMic(a1, a2, a, k, SupplicantKey(k, rc))]))

EapolFrames ==
    {EapolFrame(Mac, a2, a, k, 1) :
        a2 \in StaMacs, a \in 0..MaxDraws, k \in SnonceIds}
    \cup {EapolFrame(Mac, a2, 1, "s1", 2) : a2 \in StaMacs}

\* message 2 frames that carry a second SNONCE value, for the specifications
\* of the handshake without the data path
SecondSnonceFrames ==
    {EapolFrame(Mac, a2, a, "s2", 1) : a2 \in StaMacs, a \in 0..MaxDraws}

\* the TK of the supplicant that received ANONCE number a and chose SNONCE
\* number k
SupplicantTK(sta, a, k) ==
    Slice(customPRF512(pmk, Mac, sta, Anonce(a), Snonce(k)), 32, 48)

\* key id and key of the CCMP frames stations send under a key that is not
\* a TK of theirs
OtherKeys ==
    {<<0, Bytes(16, <<"garbage">>)>>, <<1, gen_gtk(1)>>, <<2, gen_gtk(1)>>}

ProtectedFrame(a1, a2, kid, key, pn, pr) ==
    RxFrame(FALSE, DOT11_TYPE_DATA, 0, "to-DS+protected", a1, a2,
            [layer |-> "Dot11CCMP", key_id |-> kid, ext_iv |-> 1, PN |-> pn,
             data |-> run_ccmp_encrypt(key, a2, pn, [proto |-> pr])])

ProtectedFrames ==
    UNION {{ProtectedFrame(Mac, a2, 0, SupplicantTK(a2, a, k), pn, "IP") :
              a \in 1..MaxDraws, k \in SnonceIds, pn \in 0..MaxRxPN} :
           a2 \in StaMacs}
    \cup {ProtectedFrame(Mac, a2, kk[1], kk[2], 0, "IP") :
            a2 \in StaMacs, kk \in OtherKeys}
    \cup {ProtectedFrame(Mac, a2, 0, SupplicantTK(a2, a, k), 0, "ARP") :
            a2 \in StaMacs, a \in 1..MaxDraws, k \in SnonceIds}

PlainDataFrames ==
    {RxFrame(FALSE, DOT11_TYPE_DATA, 0, "to-DS", Mac, a2, [layer |-> pr]) :
        a2 \in StaMacs, pr \in {"ARP", "IP"}}

RxFrames ==
    AuthReqs \cup AssocReqs \cup ProbeReqs \cup EapolFrames
    \cup ProtectedFrames \cup PlainDataFrames

\* frames the upper network hands to TunInterface.read
TunFrames ==
    {Ether(d, "02:00:00:00:00:77", "IP") :
        d \in StaMacs \cup {Broadcast, OtherMac}}

\* management frames to and from every kind of address: the frames the
\* address filter of recv_pkt tells apart
DispatchAddr1 == {Mac, Broadcast, Multicast, OtherMac}
DispatchAddr2 == StaMacs \cup Bssids

DispatchFrames ==
    {RxFrame(FALSE, DOT11_TYPE_MANAGEMENT, DOT11_SUBTYPE_PROBE_REQ, "", a1,
             a2, [layer |-> "Dot11ProbeReq", has_elt |-> TRUE, len |-> n,
                  info |-> IF n = 0 THEN "" ELSE Ssid]) :
        a1 \in DispatchAddr1, a2 \in DispatchAddr2, n \in {0, Len(Ssid)}}
    \cup {AuthFrame(FALSE, a1, a2) :
            a1 \in DispatchAddr1, a2 \in DispatchAddr2}
    \cup {AssocFrame(DOT11_SUBTYPE_ASSOC_REQ, a1, a2) :
            a1 \in DispatchAddr1, a2 \in DispatchAddr2}

\* deauthentication frames (management, subtype 12) stations send to the
\* BSSID, reason 3: the station is leaving
DeauthFrames ==
    {RxFrame(FALSE, DOT11_TYPE_MANAGEMENT, 12, "", Mac, a2,
             [layer |-> "Dot11Deauth", reason |-> 3]) : a2 \in StaMacs}

-----------------------------------------------------------------------------
(* Specification *)

\* the part of the unbounded state space that is explored
Bounded(w) ==
    /\ w.sc <= MaxSC
    /\ w.group_iv <= MaxPN
    /\ \A s \in DOMAIN w.stations : w.stations[s].client_iv <= MaxPN

\* whether recv_pkt lets the frame past its address and FCS checks
Passed(packet) ==
    /\ ~NotForUs(packet.addr1, packet.addr2)
    /\ ~packet.badfcs

\* the timestamp t, or -1 when the station has none
Stamp(times, sta) == IF sta \in DOMAIN times THEN times[sta] ELSE 0 - 1

\* the received frame carries an EAPOL-Key and comes from a station that is
\* in the table with eapol_ready set
FromReadyStation(packet) ==
    /\ packet.payload.layer = "EAPOL"
    /\ packet.addr1 \in Bssids
    /\ packet.addr2 \notin Bssids
    /\ packet.addr2 \in DOMAIN stations
    /\ stations[packet.addr2].eapol_ready

\* the frame's MIC equals HMAC-SHA1(KCK, frame with the MIC zeroed)[:16],
\* the KCK being that of the PTK derived from the station's ANONCE and the
\* frame's nonce
MicVerifies(packet) ==
    LET ek == packet.payload.key
        ptk == customPRF512(pmk, packet.addr1, packet.addr2,
                            stations[packet.addr2].ANONCE, ek.key_nonce)
    IN  ek.key_mic = Slice(hmac_sha1(Slice(ptk, 0, 16), MicZeroed(ek)), 0, 16)

\* the key decrypt_ccmp selects for a protected frame
RxKey(packet) ==
    IF packet.payload.key_id = 0 THEN stations[packet.addr2].TK ELSE gtk

NoEvent == [kind |-> "", addr2 |-> "", prev |-> 0 - 1, ready |-> FALSE,
            mic_ok |-> FALSE, key |-> Absent, pn |-> 0 - 1]

\* history of the last step, when it was recv_pkt on a frame for our BSSID
\* that passed the address and FCS checks: for an authentication or a
\* (re)association request, its kind, its addr2 and the station's timestamp
\* of that kind before the step; for an EAPOL-Key frame, its addr2, whether
\* the station was in the table with eapol_ready set and whether the MIC
\* verified then; for a protected data frame of a station in the table that
\* decrypts under the key decrypt_ccmp selects for it, its addr2, its PN and
\* that key; for a protected data frame of a station that is not in the
\* table, its addr2. For a group-addressed probe request with an empty SSID that
\* passed the checks, its kind and its addr2
Event(packet) ==
    IF /\ Passed(packet)
       /\ IsGroup(packet.addr1)
       /\ packet.payload.layer = "Dot11ProbeReq"
       /\ packet.payload.len = 0
    THEN [NoEvent EXCEPT !.kind = "Dot11ProbeReq", !.addr2 = packet.addr2]
    ELSE IF ~(Passed(packet) /\ packet.addr1 \in Bssids) THEN NoEvent
    ELSE IF packet.payload.layer = "Dot11Auth"
    THEN [NoEvent EXCEPT !.kind = "Dot11Auth", !.addr2 = packet.addr2,
                         !.prev = Stamp(auth_times, packet.addr2)]
    ELSE IF packet.payload.layer = "Dot11AssoReq"
    THEN [NoEvent EXCEPT
             !.kind = IF packet.subtype = DOT11_SUBTYPE_REASSOC_REQ
                      THEN "Dot11ReassoReq" ELSE "Dot11AssoReq",
             !.addr2 = packet.addr2,
             !.prev = Stamp(assoc_times, packet.addr2)]
    ELSE IF packet.payload.layer = "EAPOL"
    THEN [NoEvent EXCEPT
             !.kind = "EAPOL", !.addr2 = packet.addr2,
             !.ready = FromReadyStation(packet),
             !.mic_ok = FromReadyStation(packet) /\ MicVerifies(packet)]
    ELSE IF /\ packet.payload.layer = "Dot11CCMP"
            /\ packet.FCfield = "to-DS+protected"
            /\ packet.addr2 \notin DOMAIN stations
    THEN [NoEvent EXCEPT !.kind = "Dot11CCMP-unknown", !.addr2 = packet.addr2]
    ELSE IF /\ packet.payload.layer = "Dot11CCMP"
            /\ packet.FCfield = "to-DS+protected"
            /\ packet.addr2 \in DOMAIN stations
            /\ packet.payload.key_id \in {0, 1}
            /\ run_ccmp_decrypt(RxKey(packet), packet.addr2,
                                packet.payload.PN, packet.payload.data)
    THEN [NoEvent EXCEPT
             !.kind = "Dot11CCMP", !.addr2 = packet.addr2,
             !.pn = packet.payload.PN, !.key = RxKey(packet)]
    ELSE NoEvent

\* Station.m1_packet is read only by create_message_1, which runs after
\* prepare_message_1 has rewritten it in the same call of dot11_assoc_resp:
\* it is dead when a handler returns and is not kept between steps
Kept(stat) == [stat EXCEPT !.m1_packet = <<>>]

Commit(w) ==
    /\ sc' = w.sc
    /\ aid' = w.aid
    /\ stations' = [x \in DOMAIN w.stations |-> Kept(w.stations[x])]
    /\ gtk' = w.gtk
    /\ group_iv' = w.group_iv
    /\ auth_times' = w.auth_times
    /\ assoc_times' = w.assoc_times
    /\ eapol_ready' = w.eapol_ready
    /\ rng' = w.rng
    /\ crashed' = w.crashed
    /\ out' = w.out
    /\ up' = w.up
    /\ pn_hi' = w.pn_hi

\* the TunInterface thread is in os.read, between two frames
TunIdle == [pc |-> "read", incoming |-> <<>>]

\* the threads that call next_sc or next_aid: the receiver (the handlers of
\* recv_pkt) and the TunInterface thread (encrypt_ccmp); the beacon
\* transmitter calls neither
LockThreads == {"receiver", "tun"}

\* BSS.mutex is free and no thread is inside next_sc or next_aid
ThrIdle == [mutex |-> "", pc |-> [t \in LockThreads |-> "run"],
            op |-> [t \in LockThreads |-> ""]]

\* struct.pack("<L", n)
pack_L(n) ==
    <<n % 256, (n \div 256) % 256, (n \div 65536) % 256,
      (n \div 16777216) % 256>>

\* struct.unpack("<L", b[:4])[0]; a value of 2^31 or more is read as
\* 2^31 - 1, which is as far beyond what qdata can hold
unpack_L(b) ==
    IF b[4] >= 128 THEN 2147483647
    ELSE b[1] + 256 * b[2] + 65536 * b[3] + 16777216 * b[4]

\* the six octets of an address
MacOctets(a) ==
    CASE a = Mac -> <<68, 68, 68, 0, 0, 0>>
      [] a = Sta1 -> <<2, 0, 0, 0, 0, 1>>
      [] OTHER -> <<255, 255, 255, 255, 255, 255>>

\* packet.build() of a management frame: the RadioTap header, the Dot11
\* header (frame control, duration, three addresses, sequence control) and
\* the fixed fields of the body
Build(packet) ==
    <<0, 0, 8, 0, 0, 0, 0, 0>>
    \o <<packet.subtype * 16 + packet.type * 4, 0, 0, 0>>
    \o MacOctets(packet.addr1) \o MacOctets(packet.addr2)
    \o MacOctets(packet.addr3)
    \o <<0, 0>>
    \o (IF packet.payload.layer = "Dot11Auth"
        THEN <<0, 0, packet.payload.seqnum, 0, 0, 0>>
        ELSE <<0, 0, 200, 0>>)

\* the frames the harness writes to stdin, in order
StdioPackets ==
    <<AuthFrame(FALSE, Mac, Sta1),
      AssocFrame(DOT11_SUBTYPE_ASSOC_REQ, Mac, Sta1)>>

\* one frame of the byte stream: the length, then the bytes
Framed(b) == pack_L(Len(b)) \o b

\* the byte stream on stdin
StdioStream ==
    Framed(Build(StdioPackets[1])) \o Framed(Build(StdioPackets[2]))

\* b[i:j] of Python: what lies beyond the end is left out
PySlice(b, i, j) ==
    IF i >= Len(b) \/ i >= j THEN <<>>
    ELSE SubSeq(b, i + 1, IF j < Len(b) THEN j ELSE Len(b))

\* a byte string that is not a whole frame
Malformed == [layer |-> "Raw"]

\* RadioTap(bytes): the dissection of a byte string
RadioTap(b) ==
    IF \E i \in 1..Len(StdioPackets) : Build(StdioPackets[i]) = b
    THEN (CHOOSE packet \in {StdioPackets[i] : i \in 1..Len(StdioPackets)} :
             Build(packet) = b)
    ELSE Malformed

\* AP.run in stdio mode before its loop: nothing is read yet, qdata is
\* empty and nothing was handed to recv_pkt
StdioStart == [stdin |-> StdioStream, qdata |-> <<>>, rx |-> <<>>]

Init ==
    /\ now = 0
    /\ sc = 0
    /\ aid = 0
    /\ stations = EmptyDict
    /\ gtk = gen_gtk(1)
    /\ group_iv = 0
    /\ auth_times = EmptyDict
    /\ assoc_times = EmptyDict
    /\ eapol_ready = FALSE
    /\ rng = 0
    /\ crashed = FALSE
    /\ out = <<>>
    /\ up = <<>>
    /\ ev = NoEvent
    /\ pn_hi = EmptyDict
    /\ tun = TunIdle
    /\ thr = ThrIdle
    /\ stdio = StdioStart

\* time passes
Tick ==
    /\ ~crashed
    /\ now < MaxTime
    /\ now' = now + TickMs
    /\ Commit(World)
    /\ ev' = NoEvent
    /\ UNCHANGED <<tun, thr, stdio>>

\* the receiver loop hands one frame to recv_pkt
Receive(packet) ==
    /\ ~crashed
    /\ LET w == recv_pkt(World, packet)
       IN  /\ Bounded(w)
           /\ Commit(w)
    /\ ev' = Event(packet)
    /\ UNCHANGED <<now, tun, thr, stdio>>

\* TunInterface.run: one frame read from the upper network
TunRead(incoming) ==
    /\ ~crashed
    /\ LET w == tun_data_incoming(World, incoming.dst, incoming)
       IN  /\ Bounded(w)
           /\ Commit(w)
    /\ ev' = NoEvent
    /\ UNCHANGED <<now, tun, thr, stdio>>

\* TunInterface.run up to the end of the checks of enc_send: a frame is
\* read and enc_send decides on its branch. The group branch, which reads
\* nothing of the station table, runs to its end; the branch for key index 0
\* stops before AP.encrypt, with no lock held
TunCheck(incoming) ==
    /\ ~crashed
    /\ tun.pc = "read"
    /\ LET sta == incoming.dst
           branch == enc_send_check(World, sta)
           w == IF branch = "group" THEN enc_send(World, sta, incoming)
                ELSE World
       IN  /\ Bounded(w)
           /\ Commit(w)
           /\ tun' = IF branch = "encrypt"
                     THEN [pc |-> "encrypt", incoming |-> incoming]
                     ELSE tun
    /\ ev' = NoEvent
    /\ UNCHANGED <<now, thr, stdio>>

\* TunInterface.run from AP.encrypt to the end of enc_send: the station and
\* its PN counter and TK are looked up in the table as it is now; an
\* exception ends the thread
TunEncrypt ==
    /\ ~crashed
    /\ tun.pc = "encrypt"
    /\ LET sta == tun.incoming.dst
           found == encrypt_lookup(World, sta)
           w == IF found = "ok"
                THEN encrypt_send(World, sta, tun.incoming, 0)
                ELSE World
       IN  /\ Bounded(w)
           /\ Commit(w)
           /\ tun' = IF found = "ok" THEN TunIdle
                     ELSE [pc |-> found, incoming |-> tun.incoming]
    /\ ev' = NoEvent
    /\ UNCHANGED <<now, thr, stdio>>

\* AP.encrypt for key index 0, its first statement:
\* pn = next(bss.stations[sta].client_iv)
encrypt_next_pn(w, sta) ==
    [w EXCEPT !.stations[sta].client_iv = NextIv(@)]

\* AP.encrypt for key index 0 from its second statement on, with the pn its
\* first statement drew: key = bss.stations[sta].TK, encrypt_ccmp, and the
\* sendp of enc_send
encrypt_key_send(w, sta, packet, pn) ==
    LET key == w.stations[sta].TK
        w1 == next_sc(w)
        y == encrypt_ccmp(w1, sta, packet, key, pn, 0)
        w2 == [w1 EXCEPT !.pn_hi = Put(@, key, Max(Get(@, key, 0 - 1), pn))]
    IN  sendp(w2, y)

\* the TunInterface thread in AP.encrypt, first statement: the PN is drawn
\* from the station's counter as it is now. The record keeps the PN and, as
\* history, the TK the station held when the PN was drawn
TunNextPn ==
    /\ ~crashed
    /\ tun.pc = "encrypt"
    /\ LET sta == tun.incoming.dst
           found == encrypt_lookup(World, sta)
           w == IF found = "ok" THEN encrypt_next_pn(World, sta) ELSE World
       IN  /\ Bounded(w)
           /\ Commit(w)
           /\ tun' = IF found = "ok"
                     THEN [pc |-> "key", incoming |-> tun.incoming,
                           pn |-> stations[sta].client_iv,
                           key |-> stations[sta].TK]
                     ELSE [pc |-> found, incoming |-> tun.incoming]
    /\ ev' = NoEvent
    /\ UNCHANGED <<now, thr, stdio>>

\* the TunInterface thread in AP.encrypt, second statement on: the TK is
\* read from the station as it is now, and the frame is encrypted and sent
TunKeySend ==
    /\ ~crashed
    /\ tun.pc = "key"
    /\ LET sta == tun.incoming.dst
           found == encrypt_lookup(World, sta)
           w == IF found = "ok"
                THEN encrypt_key_send(World, sta, tun.incoming, tun.pn)
                ELSE World
       IN  /\ Bounded(w)
           /\ Commit(w)
           /\ tun' = IF found = "ok" THEN TunIdle
                     ELSE [pc |-> found, incoming |-> tun.incoming]
    /\ ev' = NoEvent
    /\ UNCHANGED <<now, thr, stdio>>

\* a mutex that stays with its holder
mutex_release_kept(holder) == holder

\* self.mutex.release(): the mutex after it
mutex_release(holder) == ""

\* thread t, in a handler, calls next_sc or next_aid (op)
LockCall(t, op) ==
    /\ ~crashed
    /\ thr.pc[t] = "run"
    /\ sc < MaxSC
    /\ aid < MaxAid
    /\ thr' = [thr EXCEPT !.pc[t] = "acquire", !.op[t] = op]
    /\ Commit(World)
    /\ ev' = NoEvent
    /\ UNCHANGED <<now, tun, stdio>>

\* self.mutex.acquire() returns in thread t: the mutex was free
LockAcquire(t) ==
    /\ thr.pc[t] = "acquire"
    /\ thr.mutex = ""
    /\ thr' = [thr EXCEPT !.mutex = t, !.pc[t] = "critical"]
    /\ Commit(World)
    /\ ev' = NoEvent
    /\ UNCHANGED <<now, tun, stdio>>

\* the two statements between acquire and release: the counter advances
LockCritical(t) ==
    /\ thr.pc[t] = "critical"
    /\ thr' = [thr EXCEPT !.pc[t] = "release"]
    /\ Commit(IF thr.op[t] = "next_aid" THEN next_aid(World)
              ELSE next_sc(World))
    /\ ev' = NoEvent
    /\ UNCHANGED <<now, tun, stdio>>

\* self.mutex.release() in thread t
LockRelease(t) ==
    /\ thr.pc[t] = "release"
    /\ thr' = [thr EXCEPT !.mutex = mutex_release(@), !.pc[t] = "return"]
    /\ Commit(World)
    /\ ev' = NoEvent
    /\ UNCHANGED <<now, tun, stdio>>

\* next_sc or next_aid has returned in thread t: the handler builds its
\* frame, hands it to sendp and goes back to reading
LockReturn(t) ==
    /\ thr.pc[t] = "return"
    /\ thr' = [thr EXCEPT !.pc[t] = "run", !.op[t] = ""]
    /\ Commit(World)
    /\ ev' = NoEvent
    /\ UNCHANGED <<now, tun, stdio>>

\* BeaconTransmitter.run: one iteration of its loop
Beacon ==
    /\ ~crashed
    /\ Commit(dot11_beacon(World, Mac, Ssid))
    /\ ev' = NoEvent
    /\ UNCHANGED <<now, tun, thr, stdio>>

Next ==
    \/ Tick
    \/ \E packet \in RxFrames : Receive(packet)
    \/ \E incoming \in TunFrames : TunRead(incoming)
    \/ Beacon

Spec == Init /\ [][Next]_vars

\* the management exchange alone, with requests that name the BSSID as
\* their transmitter among them
NextSelf ==
    \/ Tick
    \/ \E packet \in AuthReqs \cup AssocReqs \cup SelfFrames : Receive(packet)
    \/ Beacon

SpecSelf == Init /\ [][NextSelf]_vars

\* a full BACKOFF passes after a station's association request was accepted
BackoffElapses ==
    /\ ~crashed
    /\ now < MaxAssocs * BACKOFF
    /\ \E s \in StaMacs : Stamp(assoc_times, s) = now
    /\ now' = now + BACKOFF
    /\ Commit(World)
    /\ ev' = NoEvent
    /\ UNCHANGED <<tun, thr, stdio>>

\* a station that authenticates and associates again after every BACKOFF
NextAid ==
    \/ BackoffElapses
    \/ \E packet \in AuthReqs \cup AssocReqs : Receive(packet)

SpecAid == Init /\ [][NextAid]_vars

\* management frames with every combination of receiver and transmitter
\* address
NextDispatch ==
    \/ \E packet \in DispatchFrames : Receive(packet)

SpecDispatch == Init /\ [][NextDispatch]_vars

\* authentication, association and handshake on the receiver side, frames
\* of the upper network on the other
NextTun ==
    \/ Tick
    \/ \E packet \in AuthReqs \cup AssocReqs \cup EapolFrames
                       \cup SecondSnonceFrames :
          Receive(packet)
    \/ \E incoming \in TunFrames : TunRead(incoming)

SpecTun == Init /\ [][NextTun]_vars

\* stations that authenticate, associate, shake hands and deauthenticate
NextDeauth ==
    \/ Tick
    \/ \E packet \in AuthReqs \cup AssocReqs \cup EapolFrames
                       \cup SecondSnonceFrames \cup DeauthFrames :
          Receive(packet)

SpecDeauth == Init /\ [][NextDeauth]_vars

\* the receiver thread and the TunInterface thread, interleaved at the
\* point where enc_send has checked the station and AP.encrypt has not yet
\* looked it up
NextRace ==
    \/ Tick
    \/ \E packet \in AuthReqs \cup AssocReqs \cup EapolFrames
                       \cup SecondSnonceFrames :
          Receive(packet)
    \/ \E incoming \in TunFrames : TunCheck(incoming)
    \/ TunEncrypt

SpecRace == Init /\ [][NextRace]_vars

\* the receiver thread and the TunInterface thread, interleaved between the
\* statements of AP.encrypt as well: between the draw of the PN and the
\* read of the TK
NextRacePn ==
    \/ Tick
    \/ \E packet \in AuthReqs \cup AssocReqs \cup EapolFrames
                       \cup SecondSnonceFrames :
          Receive(packet)
    \/ \E incoming \in TunFrames : TunCheck(incoming)
    \/ TunNextPn
    \/ TunKeySend

SpecRacePn == Init /\ [][NextRacePn]_vars

\* the loop of AP.run in stdio mode, one turn: read what stdin holds (n
\* bytes, none when there is no data), append it to qdata, and hand a frame
\* to recv_pkt when the length test passes. A byte string that is not a
\* whole frame is dissected to something recv_pkt either drops or fails on
StdioLoop(n) ==
    /\ ~crashed
    /\ n \in 0..Len(stdio.stdin)
    /\ LET data == SubSeq(stdio.stdin, 1, n)
           rest == SubSeq(stdio.stdin, n + 1, Len(stdio.stdin))
           qdata == stdio.qdata \o data
       IN  IF Len(qdata) > 4 /\ Len(qdata) + 4 >= unpack_L(qdata)
           THEN LET wanted == unpack_L(qdata)
                    b == PySlice(qdata, 4, 4 + wanted)
                    p == RadioTap(b)
                IN  /\ stdio' = [stdin |-> rest,
                                 qdata |-> PySlice(qdata, 4 + wanted,
                                                   Len(qdata)),
                                 rx |-> Append(stdio.rx, b)]
                    /\ IF p # Malformed
                       THEN /\ LET w == recv_pkt(World, p)
                               IN  Bounded(w) /\ Commit(w)
                            /\ ev' = Event(p)
                       ELSE /\ \E c \in BOOLEAN :
                                  Commit([World EXCEPT !.crashed = c])
                            /\ ev' = NoEvent
           ELSE /\ stdio' = [stdio EXCEPT !.stdin = rest, !.qdata = qdata]
                /\ Commit(World)
                /\ ev' = NoEvent
    /\ UNCHANGED <<now, tun, thr>>

\* the receiver in stdio mode, its input split across reads in every way
NextStdio == \E n \in 0..Len(StdioStream) : StdioLoop(n)

SpecStdio == Init /\ [][NextStdio]_vars

\* the receiver and the beacon transmitter: stations authenticate,
\* associate and send unprotected data frames while the beacon thread runs
NextBeacon ==
    \/ Tick
    \/ \E packet \in AuthReqs \cup AssocReqs \cup PlainDataFrames :
          Receive(packet)
    \/ Beacon

\* BeaconTransmitter.run loops for ever with a sleep of 0.05 s: its thread
\* gets its turn again and again while the process lives
SpecBeacon == Init /\ [][NextBeacon]_vars /\ WF_vars(Beacon)

\* the three threads at the grain of BSS.mutex: the receiver and the
\* TunInterface thread step through next_sc and next_aid, the beacon
\* transmitter sends its beacons
NextLock ==
    \/ LockCall("receiver", "next_sc")
    \/ LockCall("receiver", "next_aid")
    \/ LockCall("tun", "next_sc")
    \/ \E t \in LockThreads : LockAcquire(t)
    \/ \E t \in LockThreads : LockCritical(t)
    \/ \E t \in LockThreads : LockRelease(t)
    \/ \E t \in LockThreads : LockReturn(t)
    \/ Beacon

SpecLock == Init /\ [][NextLock]_vars

-----------------------------------------------------------------------------
(* Properties *)

\* C1: whenever a station's record says associated, the PTK of the
\* handshake and the KCK, KEK and TK cut from it are stored in the record,
\* and the BSS holds a 16-byte GTK
C1_AssociatedHasKeys ==
    \A s \in DOMAIN stations :
        stations[s].associated =>
            /\ stations[s].PTK # Absent
            /\ stations[s].PTK.len = 64
            /\ stations[s].KCK = Slice(stations[s].PTK, 0, 16)
            /\ stations[s].KEK = Slice(stations[s].PTK, 16, 32)
            /\ stations[s].TK = Slice(stations[s].PTK, 32, 48)
            /\ gtk.len = 16

\* C1: a station is associated
C1_Witness == \E s \in DOMAIN stations : stations[s].associated

\* f is a message 3 for sta carrying nonce anonce: an unprotected from-DS
\* Data frame with the EAPOL-Key fields of message 3
IsMessage3(f, sta, anonce) ==
    /\ f.type = DOT11_TYPE_DATA
    /\ f.FCfield = "from-DS"
    /\ f.addr1 = sta
    /\ f.payload.layer = "EAPOL"
    /\ f.payload.key.install = 1
    /\ f.payload.key.key_ack = 1
    /\ f.payload.key.has_key_mic = 1
    /\ f.payload.key.secure = 1
    /\ f.payload.key.encrypted_key_data = 1
    /\ f.payload.key.key_replay_counter = 2
    /\ f.payload.key.key_nonce = anonce

\* f looks like a message 3: an EAPOL-Key frame with install set
LikeMessage3(f) ==
    /\ f.payload.layer = "EAPOL"
    /\ f.payload.key.install = 1

\* f is a deauthentication frame for sta with the given reason
IsDeauth(f, sta, reason) ==
    /\ f.type = DOT11_TYPE_MANAGEMENT
    /\ f.subtype = 12
    /\ f.addr1 = sta
    /\ f.payload.layer = "Dot11Deauth"
    /\ f.payload.reason = reason

\* C2: a message 2 with a valid MIC from a station with eapol_ready set is
\* answered by exactly one frame, a message 3 (install, key_ack,
\* has_key_mic, secure, encrypted_key_data set, replay counter 2, nonce
\* ANONCE) in an unprotected from-DS Data frame, and leaves the station
\* associated with eapol_ready cleared; no step sends a message 3 but the
\* receipt of such a frame
C2_Message3 ==
    /\ (ev.kind = "EAPOL" /\ ev.ready /\ ev.mic_ok) =>
          /\ Len(out) = 1
          /\ ev.addr2 \in DOMAIN stations
          /\ IsMessage3(out[1], ev.addr2, stations[ev.addr2].ANONCE)
          /\ stations[ev.addr2].ANONCE # Absent
          /\ stations[ev.addr2].associated
          /\ ~stations[ev.addr2].eapol_ready
    /\ (\E i \in 1..Len(out) : LikeMessage3(out[i])) =>
          (ev.kind = "EAPOL" /\ ev.ready /\ ev.mic_ok)

\* C2: a message 3 has just been sent to a station that is now associated
C2_Witness ==
    /\ ev.kind = "EAPOL" /\ ev.ready /\ ev.mic_ok
    /\ Len(out) = 1
    /\ LikeMessage3(out[1])
    /\ stations[out[1].addr1].associated

\* C3: a message 2 whose MIC does not verify, from a station with
\* eapol_ready set, is answered by a deauthentication with reason 1 and by
\* nothing else (no message 3), and the station's entry is removed from the
\* table, so that no entry of it is marked associated
C3_BadMic ==
    (ev.kind = "EAPOL" /\ ev.ready /\ ~ev.mic_ok) =>
        /\ Len(out) = 1
        /\ IsDeauth(out[1], ev.addr2, 1)
        /\ ev.addr2 \notin DOMAIN stations

\* C3: a deauthentication with reason 1 has just answered a message 2 with
\* a bad MIC, and the station has no entry any more
C3_Witness ==
    /\ ev.kind = "EAPOL" /\ ev.ready /\ ~ev.mic_ok
    /\ Len(out) = 1
    /\ IsDeauth(out[1], ev.addr2, 1)
    /\ ev.addr2 \notin DOMAIN stations

\* the request of the last step was not in the backoff window of its kind
Accepted == ev.prev = 0 - 1 \/ now - ev.prev >= BACKOFF

\* f is an association response for sta with status 0
IsAssocResp(f, sta, subtype) ==
    /\ f.type = DOT11_TYPE_MANAGEMENT
    /\ f.subtype = subtype
    /\ f.addr1 = sta
    /\ f.payload.layer = "Dot11AssoResp"
    /\ f.payload.status = 0

\* f is a message 1 for sta carrying nonce anonce
IsMessage1(f, sta, anonce) ==
    /\ f.type = DOT11_TYPE_DATA
    /\ f.addr1 = sta
    /\ f.payload.layer = "EAPOL"
    /\ f.payload.key.key_ack = 1
    /\ f.payload.key.has_key_mic = 0
    /\ f.payload.key.key_replay_counter = 1
    /\ f.payload.key.key_nonce = anonce

\* f is an authentication response for sta
IsAuthResp(f, sta) ==
    /\ f.type = DOT11_TYPE_MANAGEMENT
    /\ f.subtype = 11
    /\ f.addr1 = sta
    /\ f.payload.layer = "Dot11Auth"
    /\ f.payload.seqnum = 2

\* C4: an accepted (re)association request to our BSSID leaves a Station
\* entry for its sender, is answered by exactly two frames, an association
\* response with status 0 (subtype 1, or 3 for a reassociation) and then a
\* message 1 (key_ack 1, has_key_mic 0, replay counter 1, nonce ANONCE) to
\* the same station, and leaves the station's eapol_ready set
C4_AssocAnswered ==
    (ev.kind \in {"Dot11AssoReq", "Dot11ReassoReq"} /\ Accepted) =>
        /\ ev.addr2 \in DOMAIN stations
        /\ Len(out) = 2
        /\ IsAssocResp(out[1], ev.addr2,
                       IF ev.kind = "Dot11ReassoReq" THEN 3 ELSE 1)
        /\ stations[ev.addr2].ANONCE # Absent
        /\ IsMessage1(out[2], ev.addr2, stations[ev.addr2].ANONCE)
        /\ stations[ev.addr2].eapol_ready

\* C5: an authentication request, and likewise a (re)association request,
\* that arrives less than BACKOFF after the station's previous accepted
\* request of that kind is answered by nothing and leaves the timestamp as
\* it was; one that arrives BACKOFF or more after it, or is the first, is
\* answered and sets the timestamp to the time of its arrival
C5_Backoff ==
    /\ ev.kind = "Dot11Auth" =>
          IF Accepted
          THEN /\ Len(out) = 1
               /\ IsAuthResp(out[1], ev.addr2)
               /\ Stamp(auth_times, ev.addr2) = now
          ELSE /\ out = << >>
               /\ Stamp(auth_times, ev.addr2) = ev.prev
    /\ ev.kind \in {"Dot11AssoReq", "Dot11ReassoReq"} =>
          IF Accepted
          THEN /\ Len(out) >= 1
               /\ IsAssocResp(out[1], ev.addr2,
                              IF ev.kind = "Dot11ReassoReq" THEN 3 ELSE 1)
               /\ Stamp(assoc_times, ev.addr2) = now
          ELSE /\ out = << >>
               /\ Stamp(assoc_times, ev.addr2) = ev.prev

\* C5: an association request has just been dropped in the backoff window
\* of an earlier one, after an authentication request was answered a full
\* BACKOFF after the station's first
C5_Witness ==
    /\ ev.kind = "Dot11AssoReq"
    /\ ~Accepted
    /\ out = << >>
    /\ \E s \in DOMAIN auth_times : auth_times[s] >= BACKOFF

\* f is a CCMP frame the AP encrypted under key id keyid
IsEncrypted(f, keyid) ==
    /\ f.payload.layer = "Dot11CCMP"
    /\ f.payload.key_id = keyid

\* C6: of any two unicast frames the AP encrypts under the same TK, the
\* later carries the strictly greater PN: a frame a step sends under a TK
\* has a PN above every PN used with that TK before the step
C6_UnicastPN ==
    [][\A i \in 1..Len(out') :
          IsEncrypted(out'[i], 0) =>
              out'[i].payload.PN > Get(pn_hi, out'[i].payload.data.tk, 0 - 1)
      ]_vars

\* C7: of any two frames the AP encrypts under the same GTK, the later
\* carries the strictly greater PN (a frame a step sends under the GTK has a
\* PN above every PN used with it before the step), and the group counter
\* never goes back while the GTK stays
C7_GroupPN ==
    [][/\ \A i \in 1..Len(out') :
            IsEncrypted(out'[i], 1) =>
              /\ out'[i].payload.data.tk = gtk
              /\ out'[i].payload.PN > Get(pn_hi, gtk, 0 - 1)
       /\ (gtk' = gtk => group_iv' >= group_iv)]_vars

\* C7: a second frame has been sent under the GTK
C7_Witness ==
    \E i \in 1..Len(out) :
        /\ IsEncrypted(out[i], 1)
        /\ out[i].payload.data.tk = gtk
        /\ out[i].payload.PN >= 1
\* the protected frame of the last step was given to the upper network or
\* answered by an application stub
Delivered ==
    /\ ev.kind = "Dot11CCMP"
    /\ \/ up # << >>
       \/ \E i \in 1..Len(out) : out[i].payload.layer = "Dot11CCMP"

\* C8: a protected data frame whose PN is not strictly greater than the
\* highest PN seen from its station under its key is dropped: when a frame
\* was delivered, a frame that follows it from the same station under the
\* same key with a PN that is not greater is neither given to the upper
\* network nor answered by a stub
C8_ReplayDropped ==
    [][(/\ Delivered
        /\ ev'.kind = "Dot11CCMP"
        /\ ev'.addr2 = ev.addr2
        /\ ev'.key = ev.key
        /\ ev'.pn <= ev.pn) => ~Delivered']_vars

\* C9: consecutive transmitted frames have sequence-control values that
\* differ by 16 modulo 65536, the fragment field being zero: so it is within
\* the frames of a step, and from the last frame of a step to the first
\* frame of the step that follows it
C9_SequenceControl ==
    [][/\ \A i \in 1..Len(out') : out'[i].SC % 16 = 0
       /\ \A i \in 1..(Len(out') - 1) :
             out'[i + 1].SC = (out'[i].SC + 16) % 65536
       /\ (out # << >> /\ out' # << >>) =>
             out'[1].SC = (out[Len(out)].SC + 16) % 65536]_vars

\* C10: every association response carries an AID in 1..2007
C10_AidRange ==
    \A i \in 1..Len(out) :
        out[i].payload.layer = "Dot11AssoResp" =>
            out[i].payload.AID \in 1..2007
\* packet is the message 2 that the station's stored PTK was derived from:
\* replay counter 1, the same SNONCE, a MIC that verifies
SameMessage2(packet) ==
    /\ packet.addr1 \in Bssids
    /\ packet.addr2 \in DOMAIN stations
    /\ packet.payload.key.key_replay_counter = 1
    /\ stations[packet.addr2].PTK =
          customPRF512(pmk, packet.addr1, packet.addr2,
                       stations[packet.addr2].ANONCE,
                       packet.payload.key.key_nonce)
    /\ MicVerifies(packet)

\* C11: when a valid message 2 has just been answered by a message 3 and
\* the same message 2 is delivered again, the AP derives the same PTK again
\* and answers with a message 3 again, whose MIC is computed with the KCK
\* of that PTK
C11_Idempotent ==
    [][\A packet \in EapolFrames :
          (/\ ev.kind = "EAPOL" /\ ev.mic_ok
           /\ ev.addr2 = packet.addr2
           /\ SameMessage2(packet)
           /\ Receive(packet)) =>
            /\ Len(out') = 1
            /\ LikeMessage3(out'[1])
            /\ packet.addr2 \in DOMAIN stations'
            /\ stations'[packet.addr2].PTK = stations[packet.addr2].PTK
            /\ out'[1].payload.key.key_mic =
                  EapolMic(stations[packet.addr2].KCK,
                           MicZeroed(out'[1].payload.key))]_vars

\* C12: no key of the station table is a BSSID of this AP, and a received
\* frame whose addr2 is a BSSID of this AP is answered by no transmission
C12_NoSelfStation ==
    /\ \A s \in DOMAIN stations : s \notin Bssids
    /\ ev.addr2 \in Bssids => out = <<>>

\* recv_pkt returned without a transmission, a delivery or a change of the
\* AP's state
Dropped ==
    /\ out' = <<>>
    /\ up' = <<>>
    /\ UNCHANGED <<sc, aid, stations, gtk, group_iv, auth_times, assoc_times,
                   eapol_ready, rng, crashed, pn_hi>>

\* f is a probe response of the primary BSS to sta with the configured SSID
IsProbeResp(f, sta) ==
    /\ f.type = DOT11_TYPE_MANAGEMENT
    /\ f.subtype = 5
    /\ f.addr1 = sta
    /\ f.addr2 = Mac
    /\ f.payload.layer = "Dot11ProbeResp"
    /\ f.payload.ssid = Ssid

EmptySsidProbe(p) ==
    /\ p.payload.layer = "Dot11ProbeReq"
    /\ p.payload.has_elt
    /\ p.payload.len = 0

\* C13 as stated: a frame whose addr1 is unicast and not our BSSID is
\* dropped; a group-addressed frame is kept only if its addr2 is our BSSID
\* (a probe request with an empty SSID is then answered), and every other
\* group-addressed frame is dropped without state change or transmission
C13_GroupOnlyFromSelf ==
    [][\A p \in DispatchFrames :
          Receive(p) =>
            /\ (p.addr1 # Mac /\ ~IsGroup(p.addr1)) => Dropped
            /\ (IsGroup(p.addr1) /\ p.addr2 # Mac) => Dropped
            /\ (IsGroup(p.addr1) /\ p.addr2 = Mac /\ EmptySsidProbe(p)) =>
                  (Len(out') = 1 /\ IsProbeResp(out'[1], p.addr2))]_vars

\* C13, amended: a frame whose addr1 is unicast and not our BSSID is
\* dropped; a group-addressed frame is kept unless its addr2 is our BSSID
\* (a probe request with an empty SSID is then answered), and a
\* group-addressed frame whose addr2 is our BSSID is dropped without state
\* change or transmission
C13_AddressFilter ==
    [][\A p \in DispatchFrames :
          Receive(p) =>
            /\ (p.addr1 # Mac /\ ~IsGroup(p.addr1)) => Dropped
            /\ (IsGroup(p.addr1) /\ p.addr2 = Mac) => Dropped
            /\ (IsGroup(p.addr1) /\ p.addr2 # Mac /\ EmptySsidProbe(p)) =>
                  (Len(out') = 1 /\ IsProbeResp(out'[1], p.addr2))]_vars

\* a group-addressed probe request from a station has just been answered
C13_Witness ==
    /\ ev.kind = "Dot11ProbeReq"
    /\ ev.addr2 \in StaMacs
    /\ Len(out) = 1
    /\ IsProbeResp(out[1], ev.addr2)

\* C14: a probe request of a station with an empty SSID is answered by one
\* probe response of the primary BSS that carries the configured SSID; one
\* with a non-empty SSID is answered, by one probe response of the BSS with
\* that SSID, exactly when the SSID equals the SSID of a BSS
C14_ProbeAnswered ==
    [][\A p \in DispatchFrames :
          (/\ Receive(p)
           /\ p.payload.layer = "Dot11ProbeReq"
           /\ Passed(p)
           /\ p.addr2 \in StaMacs) =>
             IF p.payload.len = 0 \/ p.payload.info = Ssid
             THEN Len(out') = 1 /\ IsProbeResp(out'[1], p.addr2)
             ELSE out' = <<>>]_vars

\* C15: a protected to-DS frame to our BSSID from an addr2 that is not in
\* the station table is answered by one deauthentication with reason 9 to
\* that address and by nothing else: no Station entry is created, nothing is
\* delivered to the upper network, no key and no PN counter changes, and the
\* receiver goes on
C15_UnknownStation ==
    [][ev'.kind = "Dot11CCMP-unknown" =>
          /\ Len(out') = 1
          /\ IsDeauth(out'[1], ev'.addr2, 9)
          /\ out'[1].addr2 \in Bssids
          /\ up' = <<>>
          /\ ev'.addr2 \notin DOMAIN stations'
          /\ ~crashed'
          /\ UNCHANGED <<stations, gtk, group_iv, pn_hi>>]_vars

\* a protected frame from an unknown station has just been handled while
\* another key state existed to be disturbed: the group PN counter had
\* already advanced
C15_Witness ==
    /\ ev.kind = "Dot11CCMP-unknown"
    /\ group_iv > 0

\* C16: for a protected frame of a station that holds a TK, the key is the
\* TK when key_id is 0 and the GTK when key_id is 1 (the frame is delivered
\* only if it decrypts under that key); a frame whose key_id is 2 or 3 is
\* dropped: nothing is delivered or sent, no state changes, and the receiver
\* goes on
C16_KeySelection ==
    [][\A p \in ProtectedFrames :
          (/\ p.addr2 \in DOMAIN stations
           /\ stations[p.addr2].TK # Absent
           /\ Receive(p)) =>
             IF p.payload.key_id \in {0, 1}
             THEN up' # <<>> =>
                    run_ccmp_decrypt(RxKey(p), p.addr2, p.payload.PN,
                                     p.payload.data)
             ELSE ~crashed' /\ Dropped]_vars

\* C17: no received frame ends the receiver loop: whatever frames recv_pkt
\* has been handed, among them a protected frame of a station that is in the
\* table without a TK and an unprotected data frame that carries ARP, the
\* receiver is still running
C17_ReceiverGoesOn == ~crashed

\* C18: for a frame of the upper network, enc_send sends one frame under
\* key index 0, the station's TK and the station's PN counter, which it
\* advances, when the destination is unicast and in the table with
\* associated set; one frame under key index 1, the GTK and the group PN
\* counter, which it advances, when the destination is broadcast or
\* multicast; and for any other unicast destination it sends nothing and
\* leaves the PN counters and the sequence counter as they were
C18_KeyIndex ==
    [][\A incoming \in TunFrames :
          TunRead(incoming) =>
            LET sta == incoming.dst
            IN  IF IsGroup(sta)
                THEN /\ Len(out') = 1
                     /\ IsEncrypted(out'[1], 1)
                     /\ out'[1].addr1 = sta
                     /\ out'[1].payload.data.tk = gtk
                     /\ out'[1].payload.PN = group_iv
                     /\ group_iv' = group_iv + 1
                     /\ stations' = stations
                ELSE IF sta \in DOMAIN stations /\ stations[sta].associated
                THEN /\ Len(out') = 1
                     /\ IsEncrypted(out'[1], 0)
                     /\ out'[1].addr1 = sta
                     /\ out'[1].payload.data.tk = stations[sta].TK
                     /\ out'[1].payload.PN = stations[sta].client_iv
                     /\ stations'[sta].client_iv = stations[sta].client_iv + 1
                     /\ group_iv' = group_iv
                ELSE /\ out' = <<>>
                     /\ UNCHANGED <<sc, group_iv, stations>>]_vars

\* a frame has just been sent under key index 0 to an associated station,
\* whose PN counter is now one above the frame's PN
C18_Witness ==
    /\ Len(out) = 1
    /\ IsEncrypted(out[1], 0)
    /\ out[1].addr1 \in DOMAIN stations
    /\ stations[out[1].addr1].associated
    /\ stations[out[1].addr1].client_iv = out[1].payload.PN + 1

\* C19: after a deauthentication frame to our BSSID from a station that is
\* in the table has been received, that station is no longer in the table
C19_DeauthDestroys ==
    [][\A p \in DeauthFrames :
          (p.addr2 \in DOMAIN stations /\ Receive(p)) =>
              p.addr2 \notin DOMAIN stations']_vars

\* C20: the receiver thread's changes of the station table and the
\* TunInterface thread's reads of it are serialized: once enc_send has found
\* the destination in the table and associated, the station is still in the
\* table when AP.encrypt looks up its PN counter and TK, and the lookup
\* does not fail
C20_Serialized ==
    /\ tun.pc = "encrypt" => tun.incoming.dst \in DOMAIN stations
    /\ tun.pc \notin {"KeyError", "AttributeError"}

\* C21: under every interleaving of the receiver thread and the
\* TunInterface thread, a frame sent to a station is encrypted with the TK
\* that was installed when its PN was drawn, and its PN is above every PN
\* already used with that TK
C21_PnWithKey ==
    [][(tun.pc = "key" /\ tun'.pc = "read") =>
          /\ Len(out') = 1
          /\ out'[1].payload.data.tk = tun.key
          /\ out'[1].payload.PN > Get(pn_hi, out'[1].payload.data.tk, 0 - 1)
      ]_vars

\* C22: BSS.mutex is held only by a thread that is between the acquire and
\* the release of next_sc or next_aid, never by a thread that is building,
\* sending or reading a frame; and whenever a thread is inside a call, some
\* thread inside a call can take its next step: no thread waits for a mutex
\* that will not be released
C22_NoDeadlock ==
    /\ \A t \in LockThreads :
          thr.mutex = t <=> thr.pc[t] \in {"critical", "release"}
    /\ thr.mutex \in LockThreads \cup {""}
    /\ (\E t \in LockThreads : thr.pc[t] # "run") =>
          \E t \in LockThreads :
              \/ thr.pc[t] \in {"critical", "release", "return"}
              \/ thr.pc[t] = "acquire" /\ thr.mutex = ""

\* one thread holds the mutex inside next_sc while the other waits in
\* acquire
C22_Witness ==
    /\ thr.mutex = "tun"
    /\ thr.pc["receiver"] = "acquire"
    /\ thr.op["receiver"] = "next_aid"

\* C23: a protected ARP request for the AP's address from an associated
\* station, which decrypts under the station's TK, is written to the upper
\* network and is answered by one protected frame to that station
C23_ArpRoundTrip ==
    [][\A p \in ProtectedFrames :
          (/\ p.payload.data.plain.proto = "ARP"
           /\ p.addr2 \in DOMAIN stations
           /\ stations[p.addr2].associated
           /\ p.payload.key_id = 0
           /\ run_ccmp_decrypt(stations[p.addr2].TK, p.addr2, p.payload.PN,
                               p.payload.data)
           /\ Receive(p)) =>
             /\ Len(up') = 1
             /\ up'[1] = Ether(p.addr3, p.addr2, "ARP")
             /\ Len(out') = 1
             /\ IsEncrypted(out'[1], 0)
             /\ out'[1].addr1 = p.addr2]_vars

\* C24: an EAPOL-Key frame that is not a message 2 (key_ack 0, has_key_mic
\* 1, replay counter 1), such as a message 4 with replay counter 2 that
\* arrives while eapol_ready is set, is answered by nothing and leaves the
\* station table as it was: no PTK is stored, no deauthentication is sent
\* and no Station is removed
C24_OnlyMessage2 ==
    [][\A p \in EapolFrames :
          (/\ ~(/\ p.payload.key.key_ack = 0
                /\ p.payload.key.has_key_mic = 1
                /\ p.payload.key.key_replay_counter = 1)
           /\ Receive(p)) =>
             /\ out' = <<>>
             /\ UNCHANGED stations]_vars

\* C25: every message 1 the AP sends carries an ANONCE generated for it: its
\* nonce differs from the ANONCE of every station of the table before the
\* step, each of which was sent in an earlier message 1
C25_FreshAnonce ==
    [][\A i \in 1..Len(out') :
          (/\ out'[i].payload.layer = "EAPOL"
           /\ out'[i].payload.key.key_ack = 1
           /\ out'[i].payload.key.has_key_mic = 0) =>
             \A s \in DOMAIN stations :
                 out'[i].payload.key.key_nonce # stations[s].ANONCE]_vars

\* C26: in stdio mode every frame of the input stream is handed to recv_pkt
\* once, with exactly its bytes and in order, however the stream is split
\* across reads: what was handed to recv_pkt so far is the first frames of
\* the stream
C26_Framing ==
    \A i \in 1..Len(stdio.rx) :
        /\ i <= Len(StdioPackets)
        /\ stdio.rx[i] = Build(StdioPackets[i])

\* C27: the first PN used under a freshly installed key is 1: no frame is
\* sent with PN 0, under a pairwise key or under the group key
C27_FirstPnIsOne ==
    \A i \in 1..Len(out) :
        out[i].payload.layer = "Dot11CCMP" => out[i].payload.PN >= 1

\* the frames of the last step hold a beacon of the BSS
BeaconSent ==
    \E i \in 1..Len(out) :
        /\ out[i].payload.layer = "Dot11Beacon"
        /\ out[i].addr2 = Mac
        /\ out[i].addr3 = Mac

\* C28: with the beacon thread scheduled fairly, a beacon whose source is
\* the BSSID is transmitted again and again, whatever frames the receiver
\* is handed
C28_BeaconForever == []<>BeaconSent

\* C29: an EAPOL frame from a station that is not in the table, or whose
\* eapol_ready is false (a message 4, a message 2 repeated after message 3),
\* is ignored: nothing is transmitted or delivered, and the station table
\* with its keys, PN counters and associated flags, the group key and the
\* counters of the BSS are as before
C29_EapolIgnored ==
    [][(ev'.kind = "EAPOL" /\ ~ev'.ready) => Dropped]_vars

\* an EAPOL frame has just been ignored that came from a station which
\* had completed its handshake and whose PN counter had advanced
C29_Witness ==
    /\ ev.kind = "EAPOL"
    /\ ~ev.ready
    /\ ev.addr2 \in DOMAIN stations
    /\ stations[ev.addr2].associated
    /\ stations[ev.addr2].client_iv > 0

\* C30: an authentication or (re)association request that arrives within
\* BACKOFF of the station's last accepted request of that kind is dropped
\* and leaves the state of the BSS as it was: nothing is sent, and the
\* sequence counter, the AID allocator, the station table and the two
\* timestamp maps are unchanged
C30_BackoffDropKeepsState ==
    [][(/\ ev'.kind \in {"Dot11Auth", "Dot11AssoReq", "Dot11ReassoReq"}
        /\ ev'.prev >= 0
        /\ InBackoff(now, ev'.prev)) =>
          /\ out' = <<>>
          /\ UNCHANGED <<sc, aid, stations, auth_times, assoc_times>>]_vars

\* C31: a frame is written to the upper network only when the step handled
\* a protected to-DS data frame for our BSSID that passed the address and
\* FCS checks, came from a station of the table, and whose CCMP tag
\* verified under that station's TK or under the GTK; the frame written is
\* that one frame, and its Ethernet source is the station's address. No
\* unprotected data frame and no frame whose tag fails is written
C31_OnlyVerifiedWritten ==
    up # <<>> =>
        /\ ev.kind = "Dot11CCMP"
        /\ ev.addr2 \in DOMAIN stations
        /\ ev.key \in {stations[ev.addr2].TK, gtk}
        /\ ev.key # Absent
        /\ Len(up) = 1
        /\ up[1].src = ev.addr2

\* a decrypted frame of a station has just been written to the upper
\* network
C31_Witness ==
    /\ Len(up) = 1
    /\ up[1].proto = "IP"
    /\ up[1].src \in StaMacs

\* sta has an entry in the table st with eapol_ready set
EapolReady(st, sta) == sta \in DOMAIN st /\ st[sta].eapol_ready

\* C32: message 3 goes to a station at most once per accepted association
\* request and only after a message 1 to it. A step that sends a message 3
\* to a station sends one, finds the station's eapol_ready set and clears
\* it; and eapol_ready of a station becomes set only in a step that accepts
\* a (re)association request of that station and sends it a message 1. So
\* between two message 3 to a station lie an accepted (re)association
\* request and a message 1
C32_Message3PerAssociation ==
    [][\A s \in StaMacs \cup Bssids :
          /\ (\E i \in 1..Len(out') :
                 LikeMessage3(out'[i]) /\ out'[i].addr1 = s) =>
                /\ EapolReady(stations, s)
                /\ ~EapolReady(stations', s)
                /\ Len(out') = 1
          /\ (~EapolReady(stations, s) /\ EapolReady(stations', s)) =>
                /\ ev'.kind \in {"Dot11AssoReq", "Dot11ReassoReq"}
                /\ ev'.addr2 = s
                /\ (ev'.prev = 0 - 1 \/ ~InBackoff(now, ev'.prev))
                /\ \E i \in 1..Len(out') :
                      IsMessage1(out'[i], s, stations'[s].ANONCE)
      ]_vars

\* a message 3 has just been sent to a station whose TK had already
\* protected frames: it is not the station's first message 3
C32_Witness ==
    \E i \in 1..Len(out) :
        /\ LikeMessage3(out[i])
        /\ out[i].addr1 \in DOMAIN stations
        /\ stations[out[i].addr1].TK \in DOMAIN pn_hi

=============================================================================
